---- MODULE Spec2Model ----
(***************************************************************************)
(* Model of mr_graph's related-track retrieval (src/mr_graph/retrieval.py) *)
(* over a neighbor-lookup store (the MapBackend of                         *)
(* src/tests/test_retrieval.py).  Track ids are strings; an optional       *)
(* integer (k, limit) is <<>> for None and <<n>> for the integer n.        *)
(***************************************************************************)
EXTENDS Integers, Sequences, FiniteSets, TLC

\* ------------------------------------------------------------------ bounds
MaxWeight == 2
MaxSeeds == 3
MaxHops == 2
MaxK == 1
MaxRows == 4

\* ------------------------------------------------------- python primitives
None == <<>>

Some(n) == <<n>>

EmptyDict == [x \in {} |-> <<>>]

\* The track ids used by the model, in ascending order of Python's str "<".
IdOrder == <<"a", "b", "c", "d", "direct", "e", "far", "mid_a", "mid_b", "seed_a", "seed_b">>

Rank(id) == CHOOSE i \in 1..Len(IdOrder) : IdOrder[i] = id

StrLess(x, y) == Rank(x) < Rank(y)

Range(s) == {s[i] : i \in 1..Len(s)}

\* s[:n]
PySlice(s, n) ==
    IF n >= 0
    THEN SubSeq(s, 1, IF n < Len(s) THEN n ELSE Len(s))
    ELSE SubSeq(s, 1, IF Len(s) + n > 0 THEN Len(s) + n ELSE 0)

\* dict.pop(key, None) for every key of keys
PopAll(d, keys) == [x \in DOMAIN d \ keys |-> d[x]]

\* d[key] = value
DictSet(d, key, value) ==
    [x \in DOMAIN d \cup {key} |-> IF x = key THEN value ELSE d[x]]

RECURSIVE SumOver(_, _, _)
\* sum(f[x][i] for x in S)
SumOver(f, S, i) ==
    IF S = {} THEN 0
    ELSE LET x == CHOOSE y \in S : TRUE
         IN f[x][i] + SumOver(f, S \ {x}, i)

\* ------------------------------------------------------------------- store
\* MapBackend.get_related_tracks(track_id, limit)
backend_get_related_tracks(neighbors_map, track_id, limit) ==
    LET results == IF track_id \in DOMAIN neighbors_map
                   THEN neighbors_map[track_id] ELSE <<>>
    IN IF limit # None THEN PySlice(results, limit[1]) ELSE results

\* ------------------------------------------------------------ bounded BFS
\* Improves taking the first record of a hop count, whatever the weight.
ImprovesHopOnly(best, next_depth, next_weight) ==
    \/ best = None
    \/ next_depth < best[1][1]

\* Improves taking an equal weight at an equal hop count too.
ImprovesOrEquals(best, next_depth, next_weight) ==
    \/ best = None
    \/ next_depth < best[1][1]
    \/ (next_depth = best[1][1] /\ next_weight >= best[1][2])

\* The condition under which _collect_reachable records and enqueues a neighbor.
Improves(best, next_depth, next_weight) ==
    \/ best = None
    \/ next_depth < best[1][1]
    \/ (next_depth = best[1][1] /\ next_weight > best[1][2])

RECURSIVE ScanNeighborsLastEdge(_, _, _, _, _, _)
\* ScanNeighbors recording the weight of the last edge, not the path's sum.
ScanNeighborsLastEdge(nbrs, i, seed_id, depth, cumulative_weight, st) ==
    IF i > Len(nbrs) THEN st
    ELSE LET neighbor_id == nbrs[i][1]
             weight == nbrs[i][2]
             next_depth == depth + 1
             next_weight == weight
             best == IF neighbor_id \in DOMAIN st.visited
                     THEN Some(st.visited[neighbor_id]) ELSE None
             st2 == IF neighbor_id # seed_id /\ Improves(best, next_depth, next_weight)
                    THEN [st EXCEPT
                            !.visited = DictSet(st.visited, neighbor_id,
                                                <<next_depth, next_weight>>),
                            !.queue = Append(st.queue,
                                             <<neighbor_id, next_depth, next_weight>>)]
                    ELSE st
         IN ScanNeighborsLastEdge(nbrs, i + 1, seed_id, depth, cumulative_weight, st2)

RECURSIVE ScanNeighbors(_, _, _, _, _, _)
\* The for loop over the neighbors of the dequeued entry, from position i on.
ScanNeighbors(nbrs, i, seed_id, depth, cumulative_weight, st) ==
    IF i > Len(nbrs) THEN st
    ELSE LET neighbor_id == nbrs[i][1]
             weight == nbrs[i][2]
             next_depth == depth + 1
             next_weight == cumulative_weight + weight
             best == IF neighbor_id \in DOMAIN st.visited
                     THEN Some(st.visited[neighbor_id]) ELSE None
             st2 == IF neighbor_id # seed_id /\ Improves(best, next_depth, next_weight)
                    THEN [st EXCEPT
                            !.visited = DictSet(st.visited, neighbor_id,
                                                <<next_depth, next_weight>>),
                            !.queue = Append(st.queue,
                                             <<neighbor_id, next_depth, next_weight>>)]
                    ELSE st
         IN ScanNeighbors(nbrs, i + 1, seed_id, depth, cumulative_weight, st2)

\* BfsIteration that stops expanding one level early.
BfsIterationStopsEarly(st, seed_id, backend, hops) ==
    LET entry == Head(st.queue)
        popped == [st EXCEPT !.queue = Tail(st.queue)]
    IN IF entry[2] + 1 >= hops THEN popped
       ELSE ScanNeighbors(backend_get_related_tracks(backend, entry[1], None), 1,
                          seed_id, entry[2], entry[3],
                          [popped EXCEPT !.lookups = Append(popped.lookups,
                                                            <<entry[1], None>>)])

\* BfsIteration that also expands the entries at depth max_hops.
BfsIterationExpandsLast(st, seed_id, backend, hops) ==
    LET entry == Head(st.queue)
        popped == [st EXCEPT !.queue = Tail(st.queue)]
    IN IF entry[2] > hops THEN popped
       ELSE ScanNeighbors(backend_get_related_tracks(backend, entry[1], None), 1,
                          seed_id, entry[2], entry[3],
                          [popped EXCEPT !.lookups = Append(popped.lookups,
                                                            <<entry[1], None>>)])

\* One iteration of "while queue": popleft, then expand unless depth == max_hops.
BfsIteration(st, seed_id, backend, hops) ==
    LET entry == Head(st.queue)
        popped == [st EXCEPT !.queue = Tail(st.queue)]
    IN IF entry[2] = hops THEN popped
       ELSE ScanNeighbors(backend_get_related_tracks(backend, entry[1], None), 1,
                          seed_id, entry[2], entry[3],
                          [popped EXCEPT !.lookups = Append(popped.lookups,
                                                            <<entry[1], None>>)])

RECURSIVE BfsLoop(_, _, _, _)
BfsLoop(st, seed_id, backend, hops) ==
    IF st.queue = <<>> THEN st
    ELSE BfsLoop(BfsIteration(st, seed_id, backend, hops), seed_id, backend, hops)

\* _collect_reachable(seed_id, backend, max_hops): the visited dict, and the
\* store lookups it made.
collect_reachable(seed_id, backend, hops) ==
    LET st == BfsLoop([visited |-> EmptyDict,
                       queue |-> << <<seed_id, 0, 0>> >>,
                       lookups |-> <<>>],
                      seed_id, backend, hops)
    IN [visited |-> st.visited, lookups |-> st.lookups]

\* --------------------------------------------------- multi-seed retrieval
\* DictFromKeys that keeps only the ids occurring once.
DictFromKeysDropRepeated(s) ==
    SelectSeq(s, LAMBDA x : Cardinality({i \in 1..Len(s) : s[i] = x}) = 1)

RECURSIVE DictFromKeys(_)
\* list(dict.fromkeys(s)): first occurrences, in order
DictFromKeys(s) ==
    IF s = <<>> THEN <<>>
    ELSE LET front == DictFromKeys(SubSeq(s, 1, Len(s) - 1))
             last == s[Len(s)]
         IN IF last \in Range(front) THEN front ELSE Append(front, last)

RECURSIVE SeedLoopKeepSeeds(_, _, _, _, _, _)
\* SeedLoop with the traversal's start recorded as visited and no seed removed.
SeedLoopKeepSeeds(unique_track_ids, seed_set, i, backend, hops, acc) ==
    IF i > Len(unique_track_ids) THEN acc
    ELSE LET seed_id == unique_track_ids[i]
             r == collect_reachable(seed_id, backend, hops)
             reachable == DictSet(r.visited, seed_id, <<0, 0>>)
         IN SeedLoopKeepSeeds(unique_track_ids, seed_set, i + 1, backend, hops,
                              [reachable_per_seed |->
                                   DictSet(acc.reachable_per_seed, seed_id, reachable),
                               lookups |-> acc.lookups \o r.lookups])

RECURSIVE SeedLoop(_, _, _, _, _, _)
\* The loop "for seed_id in unique_track_ids", from position i on.
SeedLoop(unique_track_ids, seed_set, i, backend, hops, acc) ==
    IF i > Len(unique_track_ids) THEN acc
    ELSE LET seed_id == unique_track_ids[i]
             r == collect_reachable(seed_id, backend, hops)
             reachable == IF DOMAIN r.visited = {} THEN EmptyDict
                          ELSE PopAll(r.visited, seed_set)
         IN SeedLoop(unique_track_ids, seed_set, i + 1, backend, hops,
                     [reachable_per_seed |->
                          DictSet(acc.reachable_per_seed, seed_id, reachable),
                      lookups |-> acc.lookups \o r.lookups])

\* The intersection of the key sets of reachable_per_seed's values.
SharedCandidates(reachable_per_seed) ==
    IF DOMAIN reachable_per_seed = {} THEN {}
    ELSE {c \in UNION {DOMAIN reachable_per_seed[s] : s \in DOMAIN reachable_per_seed} :
            \A s \in DOMAIN reachable_per_seed : c \in DOMAIN reachable_per_seed[s]}

\* EarlyOutcome without the check of k.
EarlyOutcomeNoCapCheck(ids_arg, cap, hops) ==
    IF hops < 1 THEN "raise"
    ELSE IF ids_arg = <<>> THEN "return"
    ELSE "search"

\* EarlyOutcome with an empty seed list rejected as an invalid argument.
EarlyOutcomeEmptyRaises(ids_arg, cap, hops) ==
    IF cap # None /\ cap[1] < 0 THEN "raise"
    ELSE IF hops < 1 THEN "raise"
    ELSE IF ids_arg = <<>> THEN "raise"
    ELSE "search"

\* The checks at the head of get_related_tracks_for_multiple_details: "raise"
\* for a ValueError, "return" for the early return [], else "search".
EarlyOutcome(ids_arg, cap, hops) ==
    IF cap # None /\ cap[1] < 0 THEN "raise"
    ELSE IF hops < 1 THEN "raise"
    ELSE IF ids_arg = <<>> THEN "return"
    ELSE "search"

\* get_related_tracks_for_multiple_details up to the computation of
\* shared_candidates: the checks, the de-duplication, one BFS per seed and the
\* intersection.  outcome is "raise", "return" (a return []) or "rank".
DetailsPrepare(ids_arg, backend, cap, hops) ==
    LET early == EarlyOutcome(ids_arg, cap, hops)
        unique_track_ids == DictFromKeys(ids_arg)
        seed_set == Range(unique_track_ids)
        loop == SeedLoop(unique_track_ids, seed_set, 1, backend, hops,
                         [reachable_per_seed |-> EmptyDict, lookups |-> <<>>])
        shared_candidates == SharedCandidates(loop.reachable_per_seed)
    IN IF early # "search"
       THEN [unique_track_ids |-> <<>>, reachable_per_seed |-> EmptyDict,
             shared_candidates |-> {}, lookups |-> <<>>, outcome |-> early]
       ELSE [unique_track_ids |-> unique_track_ids,
             reachable_per_seed |-> loop.reachable_per_seed,
             shared_candidates |-> shared_candidates,
             lookups |-> loop.lookups,
             outcome |-> IF DOMAIN loop.reachable_per_seed = {}
                            \/ shared_candidates = {}
                         THEN "return" ELSE "rank"]

\* sum(distance for distance, _ in per_seed.values())
TotalDistance(per_seed) == SumOver(per_seed, DOMAIN per_seed, 1)

\* TotalWeight summing the first component of the pairs.
TotalWeightOfHops(per_seed) == SumOver(per_seed, DOMAIN per_seed, 1)

\* sum(weight for _, weight in per_seed.values())
TotalWeight(per_seed) == SumOver(per_seed, DOMAIN per_seed, 2)

\* The tuple appended to results for one candidate.
CandidateDetail(candidate, unique_track_ids, reachable_per_seed) ==
    LET per_seed == [seed_id \in Range(unique_track_ids) |->
                        reachable_per_seed[seed_id][candidate]]
    IN <<candidate, TotalDistance(per_seed), TotalWeight(per_seed), per_seed>>

\* SortKeyLess for the key (item[1], -item[2]): no tie-break by id.
SortKeyLessNoTieBreak(x, y) ==
    \/ x[2] < y[2]
    \/ (x[2] = y[2] /\ -x[3] < -y[3])

\* key(x) < key(y) for the key (item[1], -item[2], item[0]) of results.sort
SortKeyLess(x, y) ==
    \/ x[2] < y[2]
    \/ (x[2] = y[2] /\ -x[3] < -y[3])
    \/ (x[2] = y[2] /\ x[3] = y[3] /\ StrLess(x[1], y[1]))

\* x inserted into the sorted list s behind every element whose key is not greater.
InsertSorted(s, x) ==
    LET p == Cardinality({i \in 1..Len(s) : ~SortKeyLess(x, s[i])})
    IN SubSeq(s, 1, p) \o <<x>> \o SubSeq(s, p + 1, Len(s))

RECURSIVE StableSort(_)
\* list.sort(key=...): a stable sort
StableSort(s) ==
    IF s = <<>> THEN <<>>
    ELSE InsertSorted(StableSort(SubSeq(s, 1, Len(s) - 1)), s[Len(s)])

\* Truncate keeping one entry more than k.
TruncateKeepsOneMore(results, cap) ==
    IF cap # None THEN PySlice(results, cap[1] + 1) ELSE results

\* results[:k] when k is given
Truncate(results, cap) == IF cap # None THEN PySlice(results, cap[1]) ELSE results

\* The rest of get_related_tracks_for_multiple_details: the result tuples, built
\* in the order in which the set shared_candidates is iterated, sorted and cut.
DetailsRank(prep, cap, iteration) ==
    Truncate(StableSort([i \in 1..Len(iteration) |->
                            CandidateDetail(iteration[i], prep.unique_track_ids,
                                            prep.reachable_per_seed)]),
             cap)

\* [track_id for track_id, _, _, _ in details]
TrackIdsOf(dets) == [i \in 1..Len(dets) |-> dets[i][1]]

\* get_related_tracks's check of k
SingleInvalid(cap) == cap # None /\ cap[1] < 0

\* SingleResult with the ids sorted ascending.
SingleResultSorted(results) ==
    LET found == {results[i][1] : i \in 1..Len(results)}
    IN CHOOSE s \in [1..Cardinality(found) -> found] :
           \A i, j \in 1..Cardinality(found) : i < j => StrLess(s[i], s[j])

\* get_related_tracks: the ids of the store's answer
SingleResult(results) == [i \in 1..Len(results) |-> results[i][1]]

\* ------------------------------------------------------------------ stores
\* The tracks of the generated stores.
Tracks == {"a", "b", "c"}

Pairs == {p \in Tracks \X Tracks : p[1] # p[2]}

\* Every arrangement of the set S as a list.
Arrangements(S) ==
    {s \in [1..Cardinality(S) -> S] : \A x \in S : \E i \in 1..Cardinality(S) : s[i] = x}

\* The (neighbor, weight) pairs of track u under the weights m; weight 0: no edge.
NeighborPairs(m, u) == {<<p[2], m[p]>> : p \in {q \in Pairs : q[1] = u /\ m[q] > 0}}

\* The pairs of S as the list the store contract asks for: by weight descending,
\* ties by neighbor id ascending.
ContractOrder(S) ==
    CHOOSE s \in Arrangements(S) :
        \A i, j \in 1..Len(s) :
            i < j => \/ s[i][2] > s[j][2]
                     \/ (s[i][2] = s[j][2] /\ StrLess(s[i][1], s[j][1]))

\* The weights of an undirected graph, as upsert_connection builds it: both
\* ends list the edge with the same weight.
Undirected(w) == \A p \in Pairs : w[p] = w[<<p[2], p[1]>>]

\* The weights of a dict whose edges are listed at one end only, as in the
\* test stores: here at the end with the smaller id.
OneWay(w) == \A p \in Pairs : w[p] > 0 => StrLess(p[1], p[2])

\* The neighbors_map dicts over Tracks with weights 1..MaxWeight, undirected or
\* one-way.  A track without neighbors has no key.
GeneratedStores ==
    {[u \in {t \in Tracks : NeighborPairs(m, t) # {}} |-> ContractOrder(NeighborPairs(m, u))]
        : m \in {w \in [Pairs -> 0..MaxWeight] : Undirected(w) \/ OneWay(w)}}

\* neighbors_map of test_get_related_tracks_for_multiple_orders_by_hops_then_weight
StoreB ==
    [u \in {"seed_a", "seed_b", "mid_a", "mid_b"} |->
        CASE u = "seed_a" -> << <<"direct", 2>>, <<"mid_a", 4>> >>
          [] u = "seed_b" -> << <<"direct", 1>>, <<"mid_b", 3>> >>
          [] u = "mid_a" -> << <<"far", 500>> >>
          [] u = "mid_b" -> << <<"far", 500>> >>]

\* The store of scenario D: a-b(2), a-c(1), b-a(2), b-d(5).
StoreD ==
    [u \in {"a", "b"} |->
        CASE u = "a" -> << <<"b", 2>>, <<"c", 1>> >>
          [] u = "b" -> << <<"d", 5>>, <<"a", 2>> >>]

ScenarioStores == {StoreB, StoreD}

Stores == GeneratedStores \cup ScenarioStores

\* The ids a store mentions.
IdsOf(nm) == DOMAIN nm \cup UNION {{nm[u][i][1] : i \in 1..Len(nm[u])} : u \in DOMAIN nm}

\* The ids queries are made with: the keys of a scenario store, else Tracks
\* (an id of Tracks without a key in the store is an unknown id).
SeedPool(nm) == IF nm \in ScenarioStores THEN DOMAIN nm ELSE Tracks

SeedLists(pool) == UNION {[1..n -> pool] : n \in 0..MaxSeeds}

Caps == {None} \cup {Some(n) : n \in -1..MaxK}

HopChoices == 0..MaxHops

\* ------------------------------------------------------------------- state
\* The queries: the store, the call made (api, track_ids, k, max_hops), where
\* it stands (pc), what it returned (details, ids), the store lookups it made.
VARIABLES store, pc, api, track_ids, k, max_hops, details, ids, lookups, prev

\* _collect_reachable's locals: seed_id, visited, queue, and the entry popped
\* last (current_id, depth, cumulative_weight).
VARIABLES seed_id, visited, queue, current

bfs_vars == <<seed_id, visited, queue, current>>

\* build_track_graph_from_csv: the rows of the file and those still to be read,
\* the function's dicts, and the upsert calls it has made on the backend.
VARIABLES csv_rows, reader, playlist_tracks, track_playlists, track_properties, upsert_calls

builder_vars ==
    <<csv_rows, reader, playlist_tracks, track_playlists, track_properties, upsert_calls>>

\* A NetworkXGraphBackend: its graph (each node's neighbors with the weight of
\* the edge), and how the lookup made on it ended.
VARIABLES graph, answer

nx_vars == <<graph, answer>>

vars ==
    <<store, pc, api, track_ids, k, max_hops, details, ids, lookups, prev, bfs_vars,
      builder_vars, nx_vars>>

\* No NetworkXGraphBackend is in use.
NxIdle ==
    /\ graph = EmptyDict
    /\ answer = None

\* No _collect_reachable call is being stepped through.
BfsIdle ==
    /\ seed_id = ""
    /\ visited = EmptyDict
    /\ queue = <<>>
    /\ current = None

\* No build_track_graph_from_csv call is being stepped through.
BuilderIdle ==
    /\ csv_rows = <<>>
    /\ reader = <<>>
    /\ playlist_tracks = <<>>
    /\ track_playlists = <<>>
    /\ track_properties = <<>>
    /\ upsert_calls = <<>>

\* What the queries leave alone.
outside_queries == <<bfs_vars, builder_vars, nx_vars>>

Init ==
    /\ BfsIdle
    /\ BuilderIdle
    /\ NxIdle
    /\ store \in Stores
    /\ pc = "idle"
    /\ api = "none"
    /\ track_ids = <<>>
    /\ k = None
    /\ max_hops = 1
    /\ details = <<>>
    /\ ids = <<>>
    /\ lookups = <<>>
    /\ prev = None

\* get_related_tracks(track_id, backend, k)
GetRelatedTracks ==
    /\ pc = "idle"
    /\ \E track_id \in SeedPool(store), cap \in Caps :
        /\ api' = "single"
        /\ track_ids' = <<track_id>>
        /\ k' = cap
        /\ IF SingleInvalid(cap)
           THEN /\ pc' = "raised"
                /\ UNCHANGED <<ids, lookups>>
           ELSE /\ pc' = "returned"
                /\ ids' = SingleResult(backend_get_related_tracks(store, track_id, cap))
                /\ lookups' = << <<track_id, cap>> >>
    /\ UNCHANGED <<store, max_hops, details, prev, outside_queries>>

\* The body of get_related_tracks_for_multiple_details(ids_arg, store, cap,
\* max_hops=hops): details is what it returns, lookups the store lookups it made.
Details(ids_arg, cap, hops) ==
    \E prep \in {DetailsPrepare(ids_arg, store, cap, hops)} :
       /\ track_ids' = ids_arg
       /\ k' = cap
       /\ max_hops' = hops
       /\ lookups' = prep.lookups
       /\ CASE prep.outcome = "raise" ->
                 /\ pc' = "raised"
                 /\ details' = <<>>
            [] prep.outcome = "return" ->
                 /\ pc' = "returned"
                 /\ details' = <<>>
            [] prep.outcome = "rank" ->
                 /\ pc' = "returned"
                 /\ \E iteration \in Arrangements(prep.shared_candidates) :
                        details' = DetailsRank(prep, cap, iteration)
       /\ UNCHANGED store

\* get_related_tracks_for_multiple_details, called directly
GetRelatedTracksForMultipleDetails ==
    /\ pc = "idle"
    /\ \E ids_arg \in SeedLists(SeedPool(store)), cap \in Caps, hops \in HopChoices :
           Details(ids_arg, cap, hops)
    /\ api' = "details"
    /\ UNCHANGED <<ids, prev, outside_queries>>

\* get_related_tracks_for_multiple(ids_arg, store, cap, max_hops=hops): the
\* call of get_related_tracks_for_multiple_details, then the ids of what it
\* returned.
Multiple(ids_arg, cap, hops) ==
    /\ Details(ids_arg, cap, hops)
    /\ api' = "multiple"
    /\ ids' = TrackIdsOf(details')

GetRelatedTracksForMultiple ==
    /\ pc = "idle"
    /\ \E ids_arg \in SeedLists(SeedPool(store)), cap \in Caps, hops \in HopChoices :
           Multiple(ids_arg, cap, hops)
    /\ UNCHANGED <<prev, outside_queries>>

\* A second call on the same store, after a call whose seed list repeats a seed:
\* the same seeds without the repetitions, in any order; prev keeps what the
\* first call returned.
Requery ==
    /\ pc = "returned"
    /\ api = "multiple"
    /\ prev = None
    /\ Cardinality(Range(track_ids)) < Len(track_ids)
    /\ prev' = Some([track_ids |-> track_ids, details |-> details, ids |-> ids])
    /\ \E ids_arg \in Arrangements(Range(track_ids)) : Multiple(ids_arg, k, max_hops)
    /\ UNCHANGED outside_queries

Next ==
    \/ GetRelatedTracks
    \/ GetRelatedTracksForMultipleDetails
    \/ GetRelatedTracksForMultiple
    \/ Requery

Spec == Init /\ [][Next]_vars

\* ------------------------------------------- _collect_reachable, stepwise
\* The tracks of the stores the search is stepped through.
BfsTracks == {"a", "b", "c", "d"}

\* The unordered pairs of distinct tracks of BfsTracks.
BfsEdges == {p \in BfsTracks \X BfsTracks : StrLess(p[1], p[2])}

\* The unordered pairs of tracks of Tracks, a track paired with itself included.
LoopEdges == {p \in Tracks \X Tracks : ~StrLess(p[2], p[1])}

Reverse(s) == [i \in 1..Len(s) |-> s[Len(s) + 1 - i]]

\* The neighbors_map over nodes in which u lists v with weight m[<<u, v>>]
\* (0: not listed); the lists in contract order, or in the opposite order.
ListedStore(m, nodes, order) ==
    [u \in {x \in nodes : \E v \in nodes : m[<<x, v>>] > 0} |->
        LET sorted == ContractOrder({<<v, m[<<u, v>>]>> :
                                        v \in {x \in nodes : m[<<u, x>>] > 0}})
        IN IF order = "contract" THEN sorted ELSE Reverse(sorted)]

\* Edges listed at both ends, as upsert_connection stores them.
BothEnds(e, nodes) ==
    [p \in nodes \X nodes |->
        IF <<p[1], p[2]>> \in DOMAIN e THEN e[<<p[1], p[2]>>]
        ELSE IF <<p[2], p[1]>> \in DOMAIN e THEN e[<<p[2], p[1]>>]
        ELSE 0]

\* Edges listed at the end with the smaller id only; a track paired with itself
\* lists itself.
SmallerEnd(e, nodes) ==
    [p \in nodes \X nodes |-> IF <<p[1], p[2]>> \in DOMAIN e THEN e[<<p[1], p[2]>>] ELSE 0]

ListOrders == {"contract", "opposite"}

\* a lists b and c, each of which lists d, which lists e: two paths of two
\* edges to d, and e three edges away.
DiamondStores ==
    {[u \in {"a", "b", "c", "d"} |->
        CASE u = "a" -> IF order = "contract"
                        THEN << <<"b", w[1]>>, <<"c", w[2]>> >>
                        ELSE << <<"c", w[2]>>, <<"b", w[1]>> >>
          [] u = "b" -> << <<"d", w[3]>> >>
          [] u = "c" -> << <<"d", w[4]>> >>
          [] u = "d" -> << <<"e", w[5]>> >>]
        : w \in [1..5 -> 1..MaxWeight], order \in ListOrders}

\* The stores the search is stepped through: graphs over BfsTracks with every
\* edge listed at both ends, graphs over Tracks with every edge listed at one
\* end and in which a track may list itself, and the diamonds.
BfsStores ==
    {ListedStore(BothEnds(e, BfsTracks), BfsTracks, order)
        : e \in [BfsEdges -> 0..MaxWeight], order \in ListOrders}
    \cup {ListedStore(SmallerEnd(e, Tracks), Tracks, order)
        : e \in [LoopEdges -> 0..MaxWeight], order \in ListOrders}
    \cup DiamondStores

BfsSeeds == {"a", "d"}

\* max_hops of a search: the callers have checked max_hops >= 1.
BfsHops == 1..(MaxHops + 1)

\* _collect_reachable(seed_id, backend, max_hops) after
\* "visited = {}; queue = deque([(seed_id, 0, 0)])".
InitBfs ==
    /\ store \in BfsStores
    /\ seed_id \in BfsSeeds
    /\ max_hops \in BfsHops
    /\ visited = EmptyDict
    /\ queue = << <<seed_id, 0, 0>> >>
    /\ current = None
    /\ lookups = <<>>
    /\ pc = "while"
    /\ api = "none"
    /\ track_ids = <<>>
    /\ k = None
    /\ details = <<>>
    /\ ids = <<>>
    /\ prev = None
    /\ BuilderIdle
    /\ NxIdle

\* One iteration of "while queue".
BfsWhile ==
    /\ pc = "while"
    /\ queue # <<>>
    /\ \E st \in {BfsIteration([visited |-> visited, queue |-> queue, lookups |-> lookups],
                               seed_id, store, max_hops)} :
          /\ visited' = st.visited
          /\ queue' = st.queue
          /\ lookups' = st.lookups
    /\ current' = Some(Head(queue))
    /\ UNCHANGED <<store, seed_id, max_hops, pc, api, track_ids, k, details, ids, prev,
                   builder_vars, nx_vars>>

\* "return visited", the queue being empty.
BfsReturn ==
    /\ pc = "while"
    /\ queue = <<>>
    /\ pc' = "returned"
    /\ UNCHANGED <<store, seed_id, max_hops, visited, queue, current, lookups,
                   api, track_ids, k, details, ids, prev, builder_vars, nx_vars>>

NextBfs ==
    \/ BfsWhile
    \/ BfsReturn

\* The search runs on while it has a step to take.
SpecBfs == InitBfs /\ [][NextBfs]_vars /\ WF_vars(NextBfs)

\* ------------------------------------------- build_track_graph_from_csv
\* str.strip() on the field values of the tables below.
Strip(raw) ==
    CASE raw = " a " -> "a"
      [] raw = " p" -> "p"
      [] raw = "  " -> ""
      [] OTHER -> raw

\* (row.get(name) or "").strip(), row.get(name) being None or a string
Field(value) == Strip(IF value = None THEN "" ELSE value[1])

\* A dict in insertion order is the list of its (key, value) items.
OrderedHas(d, key) == \E i \in 1..Len(d) : d[i][1] = key

\* d.get(key, default)
OrderedGet(d, key, default) ==
    IF OrderedHas(d, key) THEN d[CHOOSE i \in 1..Len(d) : d[i][1] = key][2] ELSE default

\* d[key] = value
OrderedPut(d, key, value) ==
    IF OrderedHas(d, key)
    THEN [i \in 1..Len(d) |-> IF d[i][1] = key THEN <<key, value>> ELSE d[i]]
    ELSE Append(d, <<key, value>>)

\* The body of "for row in reader" (the tables have the columns track_id and
\* playlist_id only, so no descriptive field is stored); st holds the dicts.
ReadRow(row, st) ==
    LET track_id == Field(row.track_id)
        playlist_id == Field(row.playlist_id)
    IN IF track_id = "" \/ playlist_id = "" THEN st
       ELSE [playlist_tracks |->
                OrderedPut(st.playlist_tracks, playlist_id,
                           Append(OrderedGet(st.playlist_tracks, playlist_id, <<>>),
                                  track_id)),
             track_playlists |->
                OrderedPut(st.track_playlists, track_id,
                           OrderedGet(st.track_playlists, track_id, {}) \cup {playlist_id}),
             track_properties |->
                IF OrderedHas(st.track_properties, track_id) THEN st.track_properties
                ELSE Append(st.track_properties, <<track_id, EmptyDict>>)]

RECURSIVE CountPlaylists(_, _, _)
\* for track_id, playlists in track_playlists.items():
\*     track_properties.setdefault(track_id, {})["playlist_count"] = len(playlists)
CountPlaylists(tp, i, props) ==
    IF i > Len(tp) THEN props
    ELSE CountPlaylists(tp, i + 1,
                        OrderedPut(props, tp[i][1],
                                   DictSet(OrderedGet(props, tp[i][1], EmptyDict),
                                           "playlist_count", Cardinality(tp[i][2]))))

\* The tracks of a playlist in ascending order, repetitions kept.
UniqueTracksKeepRepeats(tracks) ==
    CHOOSE s \in {a \in [1..Len(tracks) -> Range(tracks)] :
                     \E f \in Arrangements(1..Len(tracks)) :
                         \A i \in 1..Len(tracks) : a[i] = tracks[f[i]]} :
        \A i, j \in 1..Len(s) : i < j => ~StrLess(s[j], s[i])

\* sorted(set(tracks))
UniqueTracks(tracks) ==
    CHOOSE s \in Arrangements(Range(tracks)) :
        \A i, j \in 1..Len(s) : i < j => StrLess(s[i], s[j])

RECURSIVE Combinations2(_)
\* list(combinations(s, 2))
Combinations2(s) ==
    IF Len(s) < 2 THEN <<>>
    ELSE [i \in 1..(Len(s) - 1) |-> <<s[1], s[i + 1]>>] \o Combinations2(Tail(s))

RECURSIVE AddEdges(_, _, _)
\* for left, right in combinations(unique_tracks, 2): edge_counter[edge] += 1
AddEdges(pairs, i, edge_counter) ==
    IF i > Len(pairs) THEN edge_counter
    ELSE LET left == pairs[i][1]
             right == pairs[i][2]
             edge == IF StrLess(left, right) THEN <<left, right>> ELSE <<right, left>>
         IN AddEdges(pairs, i + 1,
                     OrderedPut(edge_counter, edge, OrderedGet(edge_counter, edge, 0) + 1))

RECURSIVE EdgeCounter(_, _, _)
\* for tracks in playlist_tracks.values(): ...
EdgeCounter(pt, i, edge_counter) ==
    IF i > Len(pt) THEN edge_counter
    ELSE EdgeCounter(pt, i + 1,
                     AddEdges(Combinations2(UniqueTracks(pt[i][2])), 1, edge_counter))

\* backend.upsert_track(track_id, **properties) for every item of track_properties
TrackCalls(props) ==
    [i \in 1..Len(props) |-> <<"upsert_track", props[i][1], props[i][2]>>]

\* backend.upsert_connection(source_id, target_id, weight) for every item of
\* edge_counter
ConnectionCalls(edge_counter) ==
    [i \in 1..Len(edge_counter) |->
        <<"upsert_connection", edge_counter[i][1][1], edge_counter[i][1][2],
          edge_counter[i][2]>>]

TrackFields == {"a", "b", "c"}

PlaylistFields == {"p", "q"}

\* A row with both fields, a row with both fields padded, rows without a
\* track_id (no value, or blanks only) and a row without a playlist_id.
RowValues ==
    {[track_id |-> Some(t), playlist_id |-> Some(p)] : t \in TrackFields, p \in PlaylistFields}
    \cup {[track_id |-> Some(" a "), playlist_id |-> Some(" p")],
          [track_id |-> None, playlist_id |-> Some("p")],
          [track_id |-> Some("  "), playlist_id |-> Some("q")],
          [track_id |-> Some("b"), playlist_id |-> None]}

\* build_track_graph_from_csv(csv_path, backend) with the file opened.
InitBuilder ==
    /\ csv_rows \in UNION {[1..n -> RowValues] : n \in 0..MaxRows}
    /\ reader = csv_rows
    /\ playlist_tracks = <<>>
    /\ track_playlists = <<>>
    /\ track_properties = <<>>
    /\ upsert_calls = <<>>
    /\ pc = "rows"
    /\ store = EmptyDict
    /\ api = "none"
    /\ track_ids = <<>>
    /\ k = None
    /\ max_hops = 1
    /\ details = <<>>
    /\ ids = <<>>
    /\ lookups = <<>>
    /\ prev = None
    /\ BfsIdle
    /\ NxIdle

outside_builder ==
    <<store, api, track_ids, k, max_hops, details, ids, lookups, prev, bfs_vars, nx_vars>>

\* One iteration of "for row in reader".
BuilderReadRow ==
    /\ pc = "rows"
    /\ reader # <<>>
    /\ \E st \in {ReadRow(Head(reader), [playlist_tracks |-> playlist_tracks,
                                         track_playlists |-> track_playlists,
                                         track_properties |-> track_properties])} :
          /\ playlist_tracks' = st.playlist_tracks
          /\ track_playlists' = st.track_playlists
          /\ track_properties' = st.track_properties
    /\ reader' = Tail(reader)
    /\ UNCHANGED <<csv_rows, upsert_calls, pc, outside_builder>>

\* The rest of build_track_graph_from_csv, the rows being read: the playlist
\* counts, the track upserts, the edge counter and the connection upserts.
BuilderPopulate ==
    /\ pc = "rows"
    /\ reader = <<>>
    /\ track_properties' = CountPlaylists(track_playlists, 1, track_properties)
    /\ upsert_calls' = TrackCalls(track_properties')
                          \o ConnectionCalls(EdgeCounter(playlist_tracks, 1, <<>>))
    /\ pc' = "returned"
    /\ UNCHANGED <<csv_rows, reader, playlist_tracks, track_playlists, outside_builder>>

NextBuilder ==
    \/ BuilderReadRow
    \/ BuilderPopulate

SpecBuilder == InitBuilder /\ [][NextBuilder]_vars

\* --------------------------------------------------- NetworkXGraphBackend
\* nx.Graph.add_node(n): n with no neighbors, unless it is a node already.
AddNode(g, n) == IF n \in DOMAIN g THEN g ELSE DictSet(g, n, EmptyDict)

\* nx.Graph.has_edge(u, v)
HasEdge(g, u, v) == u \in DOMAIN g /\ v \in DOMAIN g[u]

\* graph[u][v]["weight"] = w: nx.Graph keeps one attribute dict for both
\* directions of the edge of u and v.
SetWeight(g, u, v, w) ==
    LET g1 == DictSet(g, u, DictSet(g[u], v, w))
    IN DictSet(g1, v, DictSet(g1[v], u, w))

\* nx.Graph.add_edge(u, v, weight=w)
AddEdge(g, u, v, w) == SetWeight(AddNode(AddNode(g, u), v), u, v, w)

\* NetworkXGraphBackend.upsert_connection(source_id, target_id, weight)
upsert_connection(g, source_id, target_id, weight) ==
    IF HasEdge(g, source_id, target_id)
    THEN SetWeight(g, source_id, target_id, weight)
    ELSE AddEdge(g, source_id, target_id, weight)

\* NetworkXGraphBackend.upsert_track(track_id), no property given
upsert_track(g, track_id) ==
    IF track_id \notin DOMAIN g THEN AddNode(g, track_id) ELSE g

\* The methods class NetworkXGraphBackend defines, and those it inherits from
\* GraphBackend.
NetworkXGraphBackendMethods ==
    {"__init__", "upsert_track", "upsert_connection", "close", "export_graphml"}

GraphBackendMethods ==
    {"initialize", "__enter__", "__exit__", "upsert_track", "upsert_connection", "close"}

\* getattr(backend, name) finds a method.
HasMethod(name) == name \in NetworkXGraphBackendMethods \cup GraphBackendMethods

\* The ids lookups are made with: "d" is never upserted.
LookupIds == Tracks \cup {"d"}

Limits == {None} \cup {Some(n) : n \in 0..MaxK}

\* backend = NetworkXGraphBackend()
InitStore ==
    /\ graph = EmptyDict
    /\ answer = None
    /\ pc = "idle"
    /\ store = EmptyDict
    /\ api = "none"
    /\ track_ids = <<>>
    /\ k = None
    /\ max_hops = 1
    /\ details = <<>>
    /\ ids = <<>>
    /\ lookups = <<>>
    /\ prev = None
    /\ BfsIdle
    /\ BuilderIdle

outside_store ==
    <<store, api, track_ids, k, max_hops, details, ids, prev, bfs_vars, builder_vars>>

\* backend.upsert_connection(source_id, target_id, weight)
UpsertConnection ==
    /\ pc = "idle"
    /\ \E source_id \in Tracks, target_id \in Tracks, weight \in 1..MaxWeight :
          graph' = upsert_connection(graph, source_id, target_id, weight)
    /\ UNCHANGED <<answer, pc, lookups, outside_store>>

\* backend.upsert_track(track_id)
UpsertTrack ==
    /\ pc = "idle"
    /\ \E track_id \in Tracks : graph' = upsert_track(graph, track_id)
    /\ UNCHANGED <<answer, pc, lookups, outside_store>>

\* backend.get_related_tracks(track_id, limit): neither NetworkXGraphBackend
\* nor GraphBackend defines get_related_tracks, so the attribute lookup raises.
NxGetRelatedTracks ==
    /\ pc = "idle"
    /\ \E track_id \in LookupIds, limit \in Limits :
          lookups' = << <<track_id, limit>> >>
    /\ ~HasMethod("get_related_tracks")
    /\ answer' = Some(<<"raise", "AttributeError">>)
    /\ pc' = "raised"
    /\ UNCHANGED <<graph, outside_store>>

NextStore ==
    \/ UpsertConnection
    \/ UpsertTrack
    \/ NxGetRelatedTracks

SpecStore == InitStore /\ [][NextStore]_vars

\* ------------------------------------------------------------------ claims
MultiSeed == api \in {"multiple", "details"}

ValidArguments == (k = None \/ k[1] >= 0) /\ max_hops >= 1

Seeds == Range(track_ids)

\* The ids of the candidates in details.
Returned == {details[i][1] : i \in 1..Len(details)}

\* The ids some track of S lists as a neighbor.
Successors(nm, S) ==
    UNION {{nm[u][i][1] : i \in 1..Len(nm[u])} : u \in S \cap DOMAIN nm}

RECURSIVE WithinHops(_, _, _)
\* The ids with a path of at least 1 and at most n edges from s.
WithinHops(nm, s, n) ==
    IF n <= 0 THEN {}
    ELSE LET nearer == WithinHops(nm, s, n - 1)
         IN Successors(nm, {s}) \cup nearer \cup Successors(nm, nearer)

\* C1: a negative k makes get_related_tracks, get_related_tracks_for_multiple
\* and get_related_tracks_for_multiple_details raise, and max_hops < 1 makes
\* the multi-seed queries raise, whatever the seed list, with no lookup made
\* in the store.
C1_ValidationBeforeStoreAccess ==
    /\ (api # "none" /\ k # None /\ k[1] < 0) => (pc = "raised" /\ lookups = <<>>)
    /\ (MultiSeed /\ max_hops < 1) => (pc = "raised" /\ lookups = <<>>)

C1_Witness ==
    /\ pc = "raised"
    /\ api = "multiple"
    /\ k = Some(-1)
    /\ max_hops = 1
    /\ Len(track_ids) = 2
    /\ track_ids[1] \in DOMAIN store

\* C2: with valid k and max_hops, a multi-seed query with an empty seed list
\* returns the empty list and makes no lookup in the store.
C2_EmptySeedsReturnEmpty ==
    (MultiSeed /\ track_ids = <<>> /\ ValidArguments)
        => (pc = "returned" /\ details = <<>> /\ ids = <<>> /\ lookups = <<>>)

C2_Witness ==
    /\ pc = "returned"
    /\ api = "multiple"
    /\ track_ids = <<>>
    /\ k = Some(1)
    /\ max_hops = 2
    /\ DOMAIN store # {}

\* C3: no id of the seed list is in the result of a multi-seed query, even
\* when that seed is reachable from another seed within max_hops.
C3_NoSeedReturned ==
    (MultiSeed /\ pc = "returned")
        => /\ Returned \cap Seeds = {}
           /\ Range(ids) \cap Seeds = {}

C3_Witness ==
    /\ pc = "returned"
    /\ api = "multiple"
    /\ ids # <<>>
    /\ \E s1, s2 \in Seeds : s1 # s2 /\ s2 \in WithinHops(store, s1, max_hops)

\* C4, as claimed: with k = None, an id is returned by the multi-seed query
\* if and only if it is not a seed and every seed has a path of 1..max_hops
\* edges to it.
C4_ReturnedIffReachableFromEverySeed ==
    (MultiSeed /\ pc = "returned" /\ k = None)
        => Returned = {c \in IdsOf(store) \ Seeds :
                          \A s \in Seeds : c \in WithinHops(store, s, max_hops)}

\* C4, amended: the same for a seed list that is not empty.
C4_NonEmptySeedsReturnedIffReachable ==
    (MultiSeed /\ pc = "returned" /\ k = None /\ track_ids # <<>>)
        => Returned = {c \in IdsOf(store) \ Seeds :
                          \A s \in Seeds : c \in WithinHops(store, s, max_hops)}

\* Two seeds; one candidate is reached from a seed only through the other seed,
\* and another id is within max_hops of one seed only.
C4_Witness ==
    /\ pc = "returned"
    /\ MultiSeed
    /\ k = None
    /\ max_hops = 2
    /\ Cardinality(Seeds) = 2
    /\ \E c \in Returned, s, t \in Seeds :
          /\ s # t
          /\ c \notin Successors(store, {s})
          /\ c \in Successors(store, {t})
          /\ t \in Successors(store, {s})
          /\ c \notin Successors(store, Successors(store, {s}) \ {t})

\* x is ranked before y: fewer total hops, else more total weight, else the
\* smaller id.
RankedBefore(x, y) ==
    \/ x[2] < y[2]
    \/ (x[2] = y[2] /\ x[3] > y[3])
    \/ (x[2] = y[2] /\ x[3] = y[3] /\ StrLess(x[1], y[1]))

\* What the call of the state returns without a cap, for every order in which
\* the set of candidates can be iterated.
UncappedRankings ==
    LET prep == DetailsPrepare(track_ids, store, None, max_hops)
    IN IF prep.outcome = "rank"
       THEN {DetailsRank(prep, None, it) : it \in Arrangements(prep.shared_candidates)}
       ELSE {<<>>}

\* C5: the multi-seed result is strictly ordered by (totalHops ascending,
\* totalWeight descending, id ascending), is the same whatever the iteration
\* order of the candidate set, and with k given is the first min(k, n) entries
\* of the uncapped ranked list.
C5_RankedAndTruncated ==
    (MultiSeed /\ pc = "returned")
        => /\ \A i, j \in 1..Len(details) :
                 i < j => RankedBefore(details[i], details[j])
           /\ \A uncapped \in UncappedRankings :
                 details = IF k = None \/ k[1] >= Len(uncapped) THEN uncapped
                           ELSE SubSeq(uncapped, 1, k[1])

\* A cap that cuts a ranked list whose first two entries tie on hops and weight.
C5_Witness ==
    /\ MultiSeed
    /\ pc = "returned"
    /\ k = Some(1)
    /\ Len(details) = 1
    /\ \E u \in UncappedRankings :
          Len(u) >= 2 /\ u[1][2] = u[2][2] /\ u[1][3] = u[2][3]

RECURSIVE SumOfSeeds(_, _, _)
\* The sum of component i of per_seed over the seeds S.
SumOfSeeds(per_seed, S, i) ==
    IF S = {} THEN 0
    ELSE LET s == CHOOSE x \in S : TRUE
         IN per_seed[s][i] + SumOfSeeds(per_seed, S \ {s}, i)

\* C6: a seed list with repeated seeds gives the result of the same seeds
\* without the repetitions, and each distinct seed counts once in totalHops
\* and totalWeight.
C6_DuplicateSeedsCollapse ==
    /\ (prev # None /\ pc = "returned")
          => (details = prev[1].details /\ ids = prev[1].ids)
    /\ (MultiSeed /\ pc = "returned")
          => \A i \in 1..Len(details) :
                 /\ DOMAIN details[i][4] = Seeds
                 /\ details[i][2] = SumOfSeeds(details[i][4], Seeds, 1)
                 /\ details[i][3] = SumOfSeeds(details[i][4], Seeds, 2)

\* The second call, after a first one with three seeds of which two are equal
\* and that returned a candidate.
C6_Witness ==
    /\ prev # None
    /\ pc = "returned"
    /\ Len(prev[1].track_ids) = 3
    /\ Len(track_ids) = 2
    /\ prev[1].track_ids[1] = prev[1].track_ids[3]
    /\ prev[1].details # <<>>

\* C7: for k >= 0 or None, get_related_tracks returns the neighbor ids of the
\* store's list for the seed, in the store's order, cut to at most k entries;
\* it makes one lookup, passing k on, and an unknown seed gives the empty list.
C7_SingleSeedIsStoreOrder ==
    (api = "single" /\ (k = None \/ k[1] >= 0))
        => LET t == track_ids[1]
               nbrs == IF t \in DOMAIN store THEN store[t] ELSE <<>>
               n == IF k = None \/ k[1] >= Len(nbrs) THEN Len(nbrs) ELSE k[1]
           IN /\ pc = "returned"
              /\ ids = [i \in 1..n |-> nbrs[i][1]]
              /\ lookups = << <<t, k>> >>
              /\ (t \notin DOMAIN store => ids = <<>>)

\* A cap of 1 on a store list of two neighbors that is not in id order.
C7_Witness ==
    /\ api = "single"
    /\ pc = "returned"
    /\ k = Some(1)
    /\ track_ids[1] \in DOMAIN store
    /\ Len(store[track_ids[1]]) = 2
    /\ StrLess(store[track_ids[1]][2][1], store[track_ids[1]][1][1])
    /\ ids = <<store[track_ids[1]][1][1]>>

ScenarioB ==
    /\ store = StoreB
    /\ MultiSeed
    /\ pc = "returned"
    /\ track_ids = <<"seed_a", "seed_b">>
    /\ k = None

\* C8, as claimed: scenario B with max_hops = 2 returns [direct, far], direct
\* with totalHops 2 and totalWeight 3, far with totalHops 4 and totalWeight
\* 1000; with max_hops = 1 it returns [direct].
C8_ScenarioBFarWeighs1000 ==
    /\ (ScenarioB /\ max_hops = 2)
          => /\ TrackIdsOf(details) = <<"direct", "far">>
             /\ details[1][2] = 2 /\ details[1][3] = 3
             /\ details[2][2] = 4 /\ details[2][3] = 1000
    /\ (ScenarioB /\ max_hops = 1) => TrackIdsOf(details) = <<"direct">>

\* C8, amended: the same with totalWeight 1007 for far (2 hops and weight
\* 4 + 500 from seed_a, 2 hops and weight 3 + 500 from seed_b).
C8_ScenarioBFarWeighs1007 ==
    /\ (ScenarioB /\ max_hops = 2)
          => /\ TrackIdsOf(details) = <<"direct", "far">>
             /\ details[1][2] = 2 /\ details[1][3] = 3
             /\ details[2][2] = 4 /\ details[2][3] = 1007
             /\ details[2][4] = [s \in {"seed_a", "seed_b"} |->
                                    IF s = "seed_a" THEN <<2, 504>> ELSE <<2, 503>>]
    /\ (ScenarioB /\ max_hops = 1) => TrackIdsOf(details) = <<"direct">>

C8_Witness == ScenarioB /\ max_hops = 2 /\ Len(details) = 2

ScenarioD ==
    /\ store = StoreD
    /\ MultiSeed
    /\ pc = "returned"
    /\ track_ids = <<"a", "b">>
    /\ k = None

\* C9, as claimed: scenario D with seeds [a, b] and max_hops = 1 returns
\* exactly the candidates c and d.
C9_ScenarioDReturnsCAndD ==
    (ScenarioD /\ max_hops = 1) => Returned = {"c", "d"}

\* C9, amended: with max_hops = 1 scenario D returns no candidate (c is within
\* one hop of a only, d of b only); c and d are what it returns with
\* max_hops = 2.
C9_ScenarioDEmptyAtOneHop ==
    /\ (ScenarioD /\ max_hops = 1) => details = <<>>
    /\ (ScenarioD /\ max_hops = 2) => Returned = {"c", "d"}

C9_Witness == ScenarioD /\ max_hops = 1 /\ api = "multiple" /\ ids = <<>>

\* C10: each returned candidate's per-seed map has the distinct seeds as its
\* keys and each seed's reachability record (hop, weight) for the candidate as
\* the value, with 1 <= hop <= max_hops; totalHops and totalWeight are the sums
\* over the map, so |S| <= totalHops <= |S| * max_hops; and
\* get_related_tracks_for_multiple returns the ids of the details in order.
C10_DetailsAreSumsOfPerSeedRecords ==
    (MultiSeed /\ pc = "returned")
        => /\ \A i \in 1..Len(details) :
                 LET candidate == details[i][1]
                     per_seed == details[i][4]
                 IN /\ DOMAIN per_seed = Seeds
                    /\ \A s \in Seeds :
                          LET record == collect_reachable(s, store, max_hops).visited
                          IN /\ candidate \in DOMAIN record
                             /\ per_seed[s] = record[candidate]
                             /\ 1 <= per_seed[s][1] /\ per_seed[s][1] <= max_hops
                    /\ details[i][2] = SumOfSeeds(per_seed, Seeds, 1)
                    /\ details[i][3] = SumOfSeeds(per_seed, Seeds, 2)
                    /\ Cardinality(Seeds) <= details[i][2]
                    /\ details[i][2] <= Cardinality(Seeds) * max_hops
           /\ api = "multiple"
                 => /\ Len(ids) = Len(details)
                    /\ \A i \in 1..Len(ids) : ids[i] = details[i][1]

\* Two distinct seeds, one of them repeated, and a candidate two hops from one.
C10_Witness ==
    /\ api = "multiple"
    /\ pc = "returned"
    /\ Len(track_ids) = 3
    /\ Cardinality(Seeds) = 2
    /\ \E i \in 1..Len(details) : \E s \in Seeds : details[i][4][s][1] = 2

\* The store contract: every neighbor list is ordered by weight descending,
\* ties by neighbor id ascending, and no track lists itself.
SatisfiesContract(nm) ==
    \A u \in DOMAIN nm :
        /\ \A i \in 1..Len(nm[u]) : nm[u][i][1] # u
        /\ \A i, j \in 1..Len(nm[u]) :
              i < j => \/ nm[u][i][2] > nm[u][j][2]
                       \/ (nm[u][i][2] = nm[u][j][2] /\ StrLess(nm[u][i][1], nm[u][j][1]))

\* The seed list [s] queried with max_hops = 1 on a store under the contract.
SingleSeedOneHop ==
    /\ api = "multiple"
    /\ pc = "returned"
    /\ Len(track_ids) = 1
    /\ max_hops = 1
    /\ SatisfiesContract(store)

\* C12: on a store that satisfies the store contract,
\* get_related_tracks_for_multiple([s], store, k, max_hops=1) returns the id
\* list that get_related_tracks(s, store, k) returns, for every k.
C12_SingleSeedReducesToNeighborLookup ==
    SingleSeedOneHop
        => ids = SingleResult(backend_get_related_tracks(store, track_ids[1], k))

\* A seed with two neighbors of equal weight, cut to the first by k = 1.
C12_Witness ==
    /\ SingleSeedOneHop
    /\ k = Some(1)
    /\ Len(ids) = 1
    /\ Len(store[track_ids[1]]) = 2
    /\ store[track_ids[1]][1][2] = store[track_ids[1]][2][2]

RECURSIVE Walks(_, _, _)
\* <<v, w>> for every sequence of h edges of the store that leads from s to v,
\* w being the sum of the edges' weights.
Walks(nm, s, h) ==
    IF h = 0 THEN {<<s, 0>>}
    ELSE UNION {{<<nm[p[1]][i][1], p[2] + nm[p[1]][i][2]>> : i \in 1..Len(nm[p[1]])}
                   : p \in {q \in Walks(nm, s, h - 1) : q[1] \in DOMAIN nm}}

\* The tracks at the end of some sequence of h edges from s.
EndsOf(nm, s, h) == {p[1] : p \in Walks(nm, s, h)}

\* The least number of edges from s to v, v being within n edges of s.
MinHop(nm, s, v, n) ==
    CHOOSE h \in 1..n :
        /\ v \in EndsOf(nm, s, h)
        /\ \A g \in 1..(h - 1) : v \notin EndsOf(nm, s, g)

\* The greatest weight of the sequences of h edges from s to v.
MaxWeightAt(nm, s, v, h) ==
    CHOOSE w \in {p[2] : p \in {q \in Walks(nm, s, h) : q[1] = v}} :
        \A p \in Walks(nm, s, h) : p[1] = v => p[2] <= w

\* The tracks other than s with a path of 1..n edges from s.
Reachable(nm, s, n) == UNION {EndsOf(nm, s, h) : h \in 1..n} \ {s}

\* C14: when the bounded BFS from seed s finishes, its record holds exactly
\* the tracks other than s that have a path of 1..max_hops edges from s, each
\* with the least hop count over all paths from s and the greatest cumulative
\* weight over the paths of that hop count; the right-hand side reads the
\* store's pairs as a set, so the order of the neighbor lists does not matter.
C14_RecordIsMinHopMaxWeight ==
    pc = "returned" /\ seed_id # ""
        => /\ DOMAIN visited = Reachable(store, seed_id, max_hops)
           /\ \A v \in DOMAIN visited :
                 /\ visited[v][1] = MinHop(store, seed_id, v, max_hops)
                 /\ visited[v][2] = MaxWeightAt(store, seed_id, v, visited[v][1])

\* A finished search that recorded e three edges away, there being a lighter
\* path of three edges to e than the recorded one.
C14_Witness ==
    /\ pc = "returned"
    /\ "e" \in DOMAIN visited
    /\ visited["e"][1] = 3
    /\ \E p \in Walks(store, seed_id, 3) : p[1] = "e" /\ p[2] < visited["e"][2]

\* Every queued entry has a hop count of 0..max_hops.
QueueHopsBounded ==
    \A i \in 1..Len(queue) : 0 <= queue[i][2] /\ queue[i][2] <= max_hops

\* The entry popped has a hop count no smaller than the one popped before it.
DequeuedInHopOrder ==
    (current # None /\ current' # None) => current'[1][2] >= current[1][2]

\* Popping an entry with hop = max_hops looks nothing up and records nothing.
LastLevelNotExpanded ==
    (queue # <<>> /\ Head(queue)[2] = max_hops)
        => (lookups' = lookups /\ visited' = visited /\ queue' = Tail(queue))

\* The record <<hop, weight>> r is strictly better than the record s.
StrictlyBetter(r, s) == r[1] < s[1] \/ (r[1] = s[1] /\ r[2] > s[2])

\* The entries a step appends to the queue are for tracks other than the seed,
\* each with a record strictly better than the track's record so far, which it
\* replaces.
EnqueuedOnImprovement ==
    queue # <<>>
        => /\ Len(queue') >= Len(queue) - 1
           /\ SubSeq(queue', 1, Len(queue) - 1) = Tail(queue)
           /\ \A j \in Len(queue)..Len(queue') :
                 LET entry == queue'[j]
                 IN /\ entry[1] # seed_id
                    /\ entry[1] \in DOMAIN visited
                          => StrictlyBetter(<<entry[2], entry[3]>>, visited[entry[1]])
                    /\ \A i \in Len(queue)..(j - 1) :
                          queue'[i][1] = entry[1]
                              => StrictlyBetter(<<entry[2], entry[3]>>,
                                                <<queue'[i][2], queue'[i][3]>>)
                    /\ entry[1] \in DOMAIN visited'
                    /\ ~StrictlyBetter(<<entry[2], entry[3]>>, visited'[entry[1]])

\* C15: for every store (cycles and edges back to the seed included), seed and
\* max_hops >= 1, the work queue of the bounded BFS eventually is empty and
\* the search returns; every queued entry has 0 <= hop <= max_hops; entries
\* are dequeued in non-decreasing hop order; an entry with hop = max_hops is
\* not expanded; and a track is enqueued again only on a strict improvement of
\* its record.
C15_BfsTerminatesWithinBounds ==
    /\ <>(pc = "returned" /\ queue = <<>>)
    /\ []QueueHopsBounded
    /\ [][DequeuedInHopOrder /\ LastLevelNotExpanded /\ EnqueuedOnImprovement]_vars

\* On a store with an edge back to the seed, an entry with hop = max_hops has
\* been popped whose track was enqueued again since, with a greater weight.
C15_Witness ==
    /\ current # None
    /\ current[1][2] = max_hops
    /\ visited[current[1][1]][2] > current[1][3]
    /\ \E u \in DOMAIN store : \E i \in 1..Len(store[u]) : store[u][i][1] = seed_id

\* The rows of the file that have a track_id and a playlist_id.
ValidRows ==
    {i \in 1..Len(csv_rows) :
        Field(csv_rows[i].track_id) # "" /\ Field(csv_rows[i].playlist_id) # ""}

\* The distinct track ids of the file.
TableTracks == {Field(csv_rows[i].track_id) : i \in ValidRows}

\* The distinct playlists containing track t.
PlaylistsOf(t) ==
    {Field(csv_rows[i].playlist_id) : i \in {j \in ValidRows : Field(csv_rows[j].track_id) = t}}

\* The upsert_connection calls made for the unordered pair of t and u.
ConnectionCallsFor(t, u) ==
    {i \in 1..Len(upsert_calls) :
        /\ upsert_calls[i][1] = "upsert_connection"
        /\ {upsert_calls[i][2], upsert_calls[i][3]} = {t, u}}

\* The upsert_track calls made for track t.
TrackCallsFor(t) ==
    {i \in 1..Len(upsert_calls) :
        upsert_calls[i][1] = "upsert_track" /\ upsert_calls[i][2] = t}

BuilderDone == pc = "returned" /\ api = "none" /\ seed_id = ""

\* C13: for every input table, build_track_graph_from_csv makes exactly one
\* upsert_connection call per unordered pair of distinct track ids that share a
\* playlist, with the number of distinct playlists containing both as weight
\* (repeated rows of a track in a playlist do not raise it) and no other
\* upsert_connection call, so none for a self-loop or with a weight below 1;
\* rows missing track_id or playlist_id are skipped; and each distinct track
\* is upserted once, with playlist_count the number of distinct playlists
\* containing it.
C13_OneConnectionPerCoOccurringPair ==
    BuilderDone
        => /\ \A t, u \in TableTracks :
                 (t # u /\ PlaylistsOf(t) \cap PlaylistsOf(u) # {})
                     => /\ Cardinality(ConnectionCallsFor(t, u)) = 1
                        /\ \A i \in ConnectionCallsFor(t, u) :
                              upsert_calls[i][4]
                                  = Cardinality(PlaylistsOf(t) \cap PlaylistsOf(u))
           /\ \A i \in 1..Len(upsert_calls) :
                 upsert_calls[i][1] = "upsert_connection"
                     => /\ upsert_calls[i][2] # upsert_calls[i][3]
                        /\ upsert_calls[i][4] >= 1
                        /\ {upsert_calls[i][2], upsert_calls[i][3]} \subseteq TableTracks
                        /\ PlaylistsOf(upsert_calls[i][2])
                              \cap PlaylistsOf(upsert_calls[i][3]) # {}
           /\ \A t \in TableTracks :
                 /\ Cardinality(TrackCallsFor(t)) = 1
                 /\ \A i \in TrackCallsFor(t) :
                       upsert_calls[i][3]["playlist_count"] = Cardinality(PlaylistsOf(t))
           /\ \A i \in 1..Len(upsert_calls) :
                 upsert_calls[i][1] = "upsert_track" => upsert_calls[i][2] \in TableTracks

\* A table with a padded row in which two tracks share two playlists.
C13_Witness ==
    /\ BuilderDone
    /\ \E i \in 1..Len(csv_rows) : csv_rows[i].track_id = Some(" a ")
    /\ \E i \in 1..Len(upsert_calls) :
          upsert_calls[i][1] = "upsert_connection" /\ upsert_calls[i][4] = 2

\* The (neighbor id, weight) pairs of track u in the graph.
GraphPairs(g, u) == IF u \in DOMAIN g THEN {<<v, g[u][v]>> : v \in DOMAIN g[u]} ELSE {}

\* C11: after any sequence of upsert_connection calls, NetworkXGraphBackend
\* answers get_related_tracks(id, limit) with the (neighbor id, weight) pairs of
\* id by weight descending, ties by neighbor id ascending, cut to at most limit
\* leading entries when limit is given; an unknown or disconnected id gets the
\* empty sequence, not an error.
C11_StoreAnswersSortedNeighbors ==
    answer # None
        => LET track_id == lookups[1][1]
               limit == lookups[1][2]
               sorted == ContractOrder(GraphPairs(graph, track_id))
           IN /\ answer[1][1] = "return"
              /\ answer[1][2] = IF limit # None THEN PySlice(sorted, limit[1]) ELSE sorted

====
